---- MODULE Spec2Model ----
(***************************************************************************)
(* A model of generate_rss.py: one run of main(), which fetches the news  *)
(* list through FlareSolverr, converts it to RSS items, wraps them in the  *)
(* channel envelope and writes rss.xml.                                    *)
(*                                                                         *)
(* Text is modelled as a sequence of tokens.  In a response body a token   *)
(* is one lexical unit of the text (a whitespace character, a JSON         *)
(* bracket, comma or literal, an HTML tag); in a headline, description,    *)
(* url or thumb it is one character.  Fixed template text of the RSS       *)
(* output is one token per tag, except the CDATA terminator, which is      *)
(* spelled character by character, as the parser of the output sees it.    *)
(***************************************************************************)
EXTENDS Integers, Sequences, FiniteSets, TLC

VARIABLES
    pc,          \* position in main(): start, fetched, converted, built, done, failed
    transport,   \* outcome of requests.post / raise_for_status / response.json
    data,        \* the proxy envelope, data = response.json()
    news_items,  \* main's news_items
    items_xml,   \* main's items_xml
    rss_feed,    \* main's rss_feed
    file,        \* content of OUTPUT_FILE
    saved,       \* save_rss has been called in this run
    exc,         \* type of the exception main re-raised, "none" if none
    excmsg       \* its message

vars == <<pc, transport, data, news_items, items_xml, rss_feed, file, saved, exc, excmsg>>

(***************************************************************************)
(* Bounds                                                                  *)
(***************************************************************************)
MaxBody == 4      \* tokens of a response body, specification SpecParse
MaxEnvBody == 3   \* tokens of a response body, specification Spec
MaxItems == 3     \* records handed to convert_to_rss, specification SpecConvert
MaxText == 3      \* characters of a headline or description, specification SpecCData

\* the sequences over S of length up to n
SeqsUpTo(S, n) == UNION {[1..m -> S] : m \in 0..n}

(***************************************************************************)
(* Python values.  A value read from a dict is absent (no such key), None  *)
(* (JSON null) or a string.                                                *)
(***************************************************************************)
Absent == [k |-> "absent", v |-> <<>>]
None == [k |-> "none", v |-> <<>>]
Str(t) == [k |-> "str", v |-> t]

\* dict.get(key, default) applied to the stored value
Get(stored, default) == IF stored.k = "absent" THEN default ELSE stored

\* Python truthiness of None / a string
Truthy(x) == x.k = "str" /\ x.v # <<>>

\* str(x) as an f-string interpolates it
Fmt(x) == IF x.k = "str" THEN x.v ELSE <<"N", "o", "n", "e">>

ItemKeys == {"headline", "url", "description", "thumb"}
NoFields == [n \in ItemKeys |-> Absent]

\* Values json.loads returns: None, a number, a dict (a news record), a list
NoVal == [k |-> "unset", a |-> <<>>, f |-> NoFields]
JNone == [k |-> "none", a |-> <<>>, f |-> NoFields]
JNum == [k |-> "num", a |-> <<>>, f |-> NoFields]
JDict(fields) == [k |-> "dict", a |-> <<>>, f |-> fields]
JList(elems) == [k |-> "list", a |-> elems, f |-> NoFields]

\* The record the body token "{A}" spells: {"headline": "A", "url": "u"}
ItemA == [NoFields EXCEPT !["headline"] = Str(<<"A">>), !["url"] = Str(<<"u">>)]

(***************************************************************************)
(* Body tokens                                                             *)
(***************************************************************************)
WS == "\n"
JsonTokens == {WS, "[", "]", ",", "{A}", "5", "null"}
TagTokens == {"<html>", "<pre>", "<PRE>", "</pre>", "</PRE>"}
BodyTokens == JsonTokens \cup TagTokens \cup {"x"}

(***************************************************************************)
(* json.loads                                                              *)
(***************************************************************************)
RECURSIVE SkipWs(_, _)
SkipWs(s, i) == IF i <= Len(s) /\ s[i] = WS THEN SkipWs(s, i + 1) ELSE i

ParseFail == [ok |-> FALSE, val |-> NoVal, next |-> 0]

RECURSIVE ParseValue(_, _)
RECURSIVE ParseElems(_, _, _)
ParseValue(s, i0) ==
    LET i == SkipWs(s, i0)
    IN  IF i > Len(s) THEN ParseFail
        ELSE IF s[i] = "null" THEN [ok |-> TRUE, val |-> JNone, next |-> i + 1]
        ELSE IF s[i] = "5" THEN [ok |-> TRUE, val |-> JNum, next |-> i + 1]
        ELSE IF s[i] = "{A}" THEN [ok |-> TRUE, val |-> JDict(ItemA), next |-> i + 1]
        ELSE IF s[i] = "["
             THEN LET j == SkipWs(s, i + 1)
                  IN  IF j <= Len(s) /\ s[j] = "]"
                      THEN [ok |-> TRUE, val |-> JList(<<>>), next |-> j + 1]
                      ELSE ParseElems(s, i + 1, <<>>)
        ELSE ParseFail

ParseElems(s, i, acc) ==
    LET r == ParseValue(s, i)
    IN  IF ~r.ok THEN ParseFail
        ELSE LET j == SkipWs(s, r.next)
             IN  IF j > Len(s) THEN ParseFail
                 ELSE IF s[j] = "," THEN ParseElems(s, j + 1, Append(acc, r.val))
                 ELSE IF s[j] = "]"
                      THEN [ok |-> TRUE, val |-> JList(Append(acc, r.val)), next |-> j + 1]
                 ELSE ParseFail

\* json.loads(s): ok = FALSE is json.JSONDecodeError
JsonLoads(s) ==
    LET r == ParseValue(s, 1)
    IN  IF r.ok /\ SkipWs(s, r.next) > Len(s)
        THEN [ok |-> TRUE, val |-> r.val]
        ELSE [ok |-> FALSE, val |-> NoVal]

(***************************************************************************)
(* fetch_latest_news_via_flaresolverr                                      *)
(***************************************************************************)
\* s.strip()
RECURSIVE Strip(_)
Strip(s) ==
    IF s = <<>> THEN s
    ELSE IF Head(s) = WS THEN Strip(Tail(s))
    ELSE IF s[Len(s)] = WS THEN Strip(SubSeq(s, 1, Len(s) - 1))
    ELSE s

\* variant: only the status "error" counts as a failure
StatusOkLax(d) == Get(d.status, None) # Str(<<"error">>)
\* data.get("status") != "ok", negated
StatusOk(d) == Get(d.status, None) = Str(<<"ok">>)

\* data.get('message', 'Unknown error')
ErrorMsg(d) == Fmt(Get(d.message, Str(<<"Unknown error">>)))

\* body = None; if "response" in solution: ... elif "body" ... elif "html" ...
SelectBody(sol) ==
    IF sol.response.k # "absent" THEN sol.response
    ELSE IF sol.body.k # "absent" THEN sol.body
    ELSE IF sol.html.k # "absent" THEN sol.html
    ELSE None

\* variant: not body, the whitespace test left out
IsBlankNoStrip(body) == body.v = <<>>
\* not body or not str(body).strip()
IsBlank(body) == body.v = <<>> \/ Strip(body.v) = <<>>

\* variant: the <pre> fallback tried on every body that is not JSON
StartsWithLtAlways(t) == TRUE
\* body.strip().startswith('<')
StartsWithLt(t) == LET s == Strip(t) IN s # <<>> /\ Head(s) \in TagTokens

\* re.search(r'<pre[^>]*>(.*?)</pre>', body, re.DOTALL): the leftmost "<pre" that
\* a "</pre>" follows, and the text up to the first "</pre>" after it.  With
\* re.DOTALL "." matches every token, newline included.  No re.IGNORECASE.
PreOpens(t) == {i \in 1..Len(t) : t[i] = "<pre>"}
PreCloses(t, i) == {j \in (i + 1)..Len(t) : t[j] = "</pre>"}
Min(S) == CHOOSE m \in S : \A n \in S : m <= n
PreMatch(t) ==
    LET starts == {i \in PreOpens(t) : PreCloses(t, i) # {}}
    IN  IF starts = {} THEN [found |-> FALSE, group1 |-> <<>>]
        ELSE LET i == Min(starts)
                 j == Min(PreCloses(t, i))
             IN  [found |-> TRUE, group1 |-> SubSeq(t, i + 1, j - 1)]

Raise(type, msg) == [exc |-> type, msg |-> msg, val |-> NoVal]
Return(val) == [exc |-> "none", msg |-> <<>>, val |-> val]

\* the try/except around json.loads: the body is a non-blank string.  The
\* decoder's own message, which the code appends to two of the errors, is left out.
ParseBody(t) ==
    LET direct == JsonLoads(t)
    IN  IF direct.ok THEN Return(direct.val)
        ELSE IF StartsWithLt(t)
             THEN LET pre_match == PreMatch(t)
                  IN  IF pre_match.found
                      THEN LET json_content == Strip(pre_match.group1)
                               inner == JsonLoads(json_content)
                           IN  IF inner.ok THEN Return(inner.val)
                               ELSE Raise("ValueError", <<"Extracted content is not valid JSON">>)
                      ELSE Raise("ValueError", <<"JSON wrapped in HTML but no <pre> tags found">>)
        ELSE Raise("ValueError", <<"Response is not valid JSON">>)

fetch_latest_news_via_flaresolverr(tr, d) ==
    IF tr # "ok" THEN Raise(tr, <<>>)
    ELSE IF ~StatusOk(d) THEN Raise("RuntimeError", <<"FlareSolverr failed: ">> \o ErrorMsg(d))
    ELSE IF d.solkind = "none" THEN Raise("TypeError", <<"argument of type 'NoneType' is not iterable">>)
    ELSE LET solution == IF d.solkind = "absent" THEN [response |-> Absent, body |-> Absent, html |-> Absent]
                         ELSE d.solution
             body == SelectBody(solution)
         IN  IF body.k = "none"
             THEN Raise("ValueError", <<"Could not find response body in FlareSolverr response">>)
             ELSE IF IsBlank(body) THEN Return(JList(<<>>))
             ELSE ParseBody(body.v)

(***************************************************************************)
(* convert_to_rss                                                          *)
(***************************************************************************)
CDataOpen == "<![CDATA["
CDataClose == <<"]", "]", ">">>
GuidOpen == "<guid isPermaLink=\"true\">"
EnclosureOpen == "<enclosure url=\""
EnclosureClose == "\" type=\"image/jpeg\"/>"

\* datetime.now(timezone.utc).strftime(...): the text of the current time
PubDate == <<"now">>

\* not items
Falsy(items) ==
    \/ items.k = "none"
    \/ items.k = "list" /\ items.a = <<>>
    \/ items.k = "dict" /\ items.f = NoFields

\* variant: if not title or not link: continue, negated
KeepBoth(title, link) == Truthy(title) /\ Truthy(link)
\* if not title and not link: continue, negated
Keep(title, link) == Truthy(title) \/ Truthy(link)

\* variant: ... if thumb is not None else ""
EnclosureIfNotNone(thumb) ==
    IF thumb.k # "none" THEN <<EnclosureOpen>> \o Fmt(thumb) \o <<EnclosureClose>> ELSE <<>>
\* f'<enclosure url="{thumb}" type="image/jpeg"/>' if thumb else ""
Enclosure(thumb) ==
    IF Truthy(thumb) THEN <<EnclosureOpen>> \o Fmt(thumb) \o <<EnclosureClose>> ELSE <<>>

\* the f-string of lines 146-155, template whitespace left out
ItemFragment(title, link, description, thumb) ==
    <<"<item>", "<title>", CDataOpen>> \o Fmt(title) \o CDataClose \o <<"</title>">>
    \o <<"<link>">> \o Fmt(link) \o <<"</link>">>
    \o <<GuidOpen>> \o Fmt(link) \o <<"</guid>">>
    \o <<"<description>", CDataOpen>> \o Fmt(description) \o CDataClose \o <<"</description>">>
    \o Enclosure(thumb)
    \o <<"<pubDate>">> \o PubDate \o <<"</pubDate>", "</item>">>

\* the for loop: item.get raises AttributeError on an element that is no dict
RECURSIVE ConvertLoop(_, _, _)
ConvertLoop(elems, i, rss_items) ==
    IF i > Len(elems) THEN [exc |-> "none", xml |-> rss_items]
    ELSE LET item == elems[i]
         IN  IF item.k # "dict" THEN [exc |-> "AttributeError", xml |-> <<>>]
             ELSE LET title == Get(item.f["headline"], Str(<<>>))
                      link == Get(item.f["url"], Str(<<>>))
                      description == Get(item.f["description"], Str(<<>>))
                      thumb == Get(item.f["thumb"], None)
                  IN  IF ~Keep(title, link) THEN ConvertLoop(elems, i + 1, rss_items)
                      ELSE ConvertLoop(elems, i + 1,
                                       rss_items \o ItemFragment(title, link, description, thumb))

\* enumerate(items): a number is not iterable, a dict iterates over its keys
\* (strings, which have no get)
convert_to_rss(items) ==
    IF Falsy(items) THEN [exc |-> "none", xml |-> <<>>]
    ELSE IF items.k = "num" THEN [exc |-> "TypeError", xml |-> <<>>]
    ELSE IF items.k = "dict" THEN [exc |-> "AttributeError", xml |-> <<>>]
    ELSE ConvertLoop(items.a, 1, <<>>)

(***************************************************************************)
(* build_rss, save_rss, main                                               *)
(***************************************************************************)
build_rss(xml) ==
    <<"<?xml version=\"1.0\" encoding=\"UTF-8\"?>", "<rss version=\"2.0\">", "<channel>",
      "<title>", "Jugantor Latest News", "</title>",
      "<link>", "https://www.jugantor.com", "</link>",
      "<description>", "Latest news from Jugantor", "</description>">>
    \o xml \o <<"</channel>", "</rss>">>

\* main's try/except: an exception ends the run, re-raised
OnResult(e, nextpc) == IF e = "none" THEN nextpc ELSE "failed"

\* variant: save_rss called in a finally clause, after a failure too
SaveInFinally(p) == p \in {"built", "failed"}
\* where main calls save_rss: after build_rss, inside the try
SaveReached(p) == p = "built"

Fetch ==
    /\ pc = "start"
    /\ LET r == fetch_latest_news_via_flaresolverr(transport, data)
       IN  /\ pc' = OnResult(r.exc, "fetched")
           /\ news_items' = r.val
           /\ exc' = r.exc
           /\ excmsg' = r.msg
    /\ UNCHANGED <<transport, data, items_xml, rss_feed, file, saved>>

Convert ==
    /\ pc = "fetched"
    /\ LET r == convert_to_rss(news_items)
       IN  /\ pc' = OnResult(r.exc, "converted")
           /\ items_xml' = r.xml
           /\ exc' = r.exc
    /\ UNCHANGED <<transport, data, news_items, rss_feed, file, saved, excmsg>>

Build ==
    /\ pc = "converted"
    /\ rss_feed' = build_rss(items_xml)
    /\ pc' = "built"
    /\ UNCHANGED <<transport, data, news_items, items_xml, file, saved, exc, excmsg>>

\* save_rss(OUTPUT_FILE, rss_feed): open(..., "w") and write
Save ==
    /\ SaveReached(pc)
    /\ file' = rss_feed
    /\ saved' = TRUE
    /\ pc' = "done"
    /\ UNCHANGED <<transport, data, news_items, items_xml, rss_feed, exc, excmsg>>

(***************************************************************************)
(* Inputs                                                                  *)
(***************************************************************************)
NoSolution == [response |-> Absent, body |-> Absent, html |-> Absent]
NoData == [status |-> Absent, message |-> Absent, solkind |-> "absent", solution |-> NoSolution]
Envelope(status, message, solkind, solution) ==
    [status |-> status, message |-> message, solkind |-> solkind, solution |-> solution]

\* requests.post raising, raise_for_status raising, response.json raising
TransportFailures == {"ConnectionError", "Timeout", "HTTPError", "JSONDecodeError"}

\* what rss.xml held before the run: nothing, or an earlier feed
PriorFiles == {<<>>, <<"previous feed">>}

FieldNames == {"response", "body", "html"}
Decoy == <<"x">>
FieldVals(texts) == {Absent, None} \cup {Str(t) : t \in texts}

\* the solution sol with the value v in field live
WithField(sol, live, v) == [f \in FieldNames |-> IF f = live THEN v ELSE sol[f]]

\* data is an envelope whose solution has any value over texts in one field
\* and, in the other two, nothing, null or the text Decoy
SomeEnvelope(statuses, messages, texts) ==
    \E st \in statuses, m \in messages, live \in FieldNames :
        \E v \in FieldVals(texts), rest \in [FieldNames -> FieldVals({Decoy})] :
            data = Envelope(st, m, "dict", WithField(rest, live, v))

\* bodies of up to n tokens
EnvBodies(n) == SeqsUpTo((JsonTokens \ {","}) \cup {"x"}, n)

InitRun(files) ==
    /\ pc = "start"
    /\ news_items = NoVal
    /\ items_xml = <<>>
    /\ rss_feed = <<>>
    /\ file \in files
    /\ saved = FALSE
    /\ exc = "none"
    /\ excmsg = <<>>

Init ==
    /\ InitRun(PriorFiles)
    /\ \/ transport \in TransportFailures /\ data = NoData
       \/ transport = "ok" /\ SomeEnvelope({Str(<<"ok">>)}, {Absent}, EnvBodies(MaxEnvBody))
       \/ transport = "ok" /\ \E k \in {"absent", "none"} :
                                 data = Envelope(Str(<<"ok">>), Absent, k, NoSolution)
       \/ transport = "ok" /\ SomeEnvelope({Absent, None, Str(<<"error">>)},
                                           {Absent, None, Str(<<"blocked">>)},
                                           SeqsUpTo({"[", "]"}, 2))

Next == Fetch \/ Convert \/ Build \/ Save

Spec == Init /\ [][Next]_vars

\* The fetcher's body parsing on every body of up to MaxBody tokens
InitParse ==
    /\ InitRun({<<"previous feed">>})
    /\ transport = "ok"
    /\ \E t \in SeqsUpTo(BodyTokens, MaxBody) :
          data = Envelope(Str(<<"ok">>), Absent, "dict", [NoSolution EXCEPT !.response = Str(t)])

NextParse == Fetch

SpecParse == InitParse /\ [][NextParse]_vars

\* convert_to_rss, build_rss and save_rss on every list of up to MaxItems records
ConvertRecords ==
    {[NoFields EXCEPT !["headline"] = h, !["url"] = u, !["thumb"] = th] :
        h \in {Str(<<>>), Str(<<"A">>)},
        u \in {Str(<<>>), Str(<<"u">>)},
        th \in {Absent, Str(<<>>), Str(<<"t">>)}}
    \cup {NoFields}

\* the state main is in when the fetcher has returned items
InitFetched ==
    /\ pc = "fetched"
    /\ transport = "ok"
    /\ data = Envelope(Str(<<"ok">>), Absent, "dict",
                       [NoSolution EXCEPT !.response = Str(<<"the JSON text of news_items">>)])
    /\ items_xml = <<>>
    /\ rss_feed = <<>>
    /\ file = <<"previous feed">>
    /\ saved = FALSE
    /\ exc = "none"
    /\ excmsg = <<>>

InitConvert ==
    /\ InitFetched
    /\ \E rs \in SeqsUpTo({JDict(r) : r \in ConvertRecords}, MaxItems) : news_items = JList(rs)

NextConvert == Convert \/ Build \/ Save

SpecConvert == InitConvert /\ [][NextConvert]_vars

\* convert_to_rss on one record whose headline and description are any text of up
\* to MaxText characters
Chars == {"a", "<", "&", "]", ">"}
CDataRecord(h, d) ==
    [NoFields EXCEPT !["headline"] = Str(h), !["description"] = Str(d), !["url"] = Str(<<"u">>)]

InitCData ==
    /\ InitFetched
    /\ \E h \in SeqsUpTo(Chars, MaxText), d \in SeqsUpTo(Chars, MaxText) :
          news_items = JList(<<JDict(CDataRecord(h, d))>>)

SpecCData == InitCData /\ [][NextConvert]_vars

(***************************************************************************)
(* What a reader of the output sees: the <item> elements an XML parser     *)
(* finds in the tokens.  A CDATA section runs to the first "]]>"; outside  *)
(* one, "<", "&" and "]]>" are markup, and text holding them where         *)
(* character data is expected is not well-formed.                          *)
(***************************************************************************)
IsCDataEnd(t, j) == j + 2 <= Len(t) /\ t[j] = "]" /\ t[j + 1] = "]" /\ t[j + 2] = ">"

\* the k-th smallest member of a set of numbers
Nth(S, k) == CHOOSE x \in S : Cardinality({y \in S : y < x}) = k - 1

Positions(t, tok) == {i \in DOMAIN t : t[i] = tok}

\* the tokens between the first open and the first close after it
Between(t, open, close) ==
    LET os == Positions(t, open)
    IN  IF os = {} THEN [found |-> FALSE, t |-> <<>>]
        ELSE LET o == Min(os)
                 cs == {j \in Positions(t, close) : j > o}
             IN  IF cs = {} THEN [found |-> FALSE, t |-> <<>>]
                 ELSE [found |-> TRUE, t |-> SubSeq(t, o + 1, Min(cs) - 1)]

\* text with nothing in it that a parser reads as markup
PlainText(t) ==
    \A i \in DOMAIN t : t[i] \notin {"<", "&", CDataOpen, EnclosureOpen, EnclosureClose} /\ ~IsCDataEnd(t, i)

\* the character data of an element's content: a CDATA section and what
\* follows it, or plain text
CharData(t) ==
    IF t # <<>> /\ t[1] = CDataOpen
    THEN LET ends == {j \in 2..Len(t) : IsCDataEnd(t, j)}
         IN  IF ends = {} THEN [ok |-> FALSE, text |-> <<>>]
             ELSE LET j == Min(ends)
                      rest == SubSeq(t, j + 3, Len(t))
                  IN  [ok |-> PlainText(rest), text |-> SubSeq(t, 2, j - 1) \o rest]
    ELSE [ok |-> PlainText(t), text |-> t]

Element(g, open, close) ==
    LET b == Between(g, open, close)
    IN  IF b.found THEN CharData(b.t) ELSE [ok |-> FALSE, text |-> <<>>]

\* the url attributes of the image/jpeg enclosure tags of an item, in order
EnclosureUrls(g) ==
    LET os == Positions(g, EnclosureOpen)
    IN  [k \in 1..Cardinality(os) |->
            LET o == Nth(os, k)
                cs == {j \in Positions(g, EnclosureClose) : j > o}
            IN  IF cs = {} THEN <<"unclosed">> ELSE SubSeq(g, o + 1, Min(cs) - 1)]

ParseItem(g) ==
    LET title == Element(g, "<title>", "</title>")
        link == Element(g, "<link>", "</link>")
        guid == Element(g, GuidOpen, "</guid>")
        description == Element(g, "<description>", "</description>")
    IN  [ok |-> title.ok /\ link.ok /\ guid.ok /\ description.ok,
         title |-> title.text,
         link |-> link.text,
         guid |-> guid.text,
         description |-> description.text,
         enclosure |-> EnclosureUrls(g)]

\* the <item> elements of a document, in document order
ParsedItems(doc) ==
    LET os == Positions(doc, "<item>")
    IN  [k \in 1..Cardinality(os) |->
            LET o == Nth(os, k)
                cs == {j \in Positions(doc, "</item>") : j > o}
            IN  IF cs = {} THEN ParseItem(<<>>) ELSE ParseItem(SubSeq(doc, o + 1, Min(cs) - 1))]

WellFormed(doc) == \A k \in DOMAIN ParsedItems(doc) : ParsedItems(doc)[k].ok

(***************************************************************************)
(* The claims' vocabulary                                                  *)
(***************************************************************************)
Fetched == pc \in {"fetched", "converted", "built", "done"}
Converted == pc \in {"converted", "built", "done"}

\* a field of a record is present and non-empty
NonEmpty(x) == x.k = "str" /\ Len(x.v) > 0
\* the text of a field, the empty text when the record has none
TextOf(x) == IF x.k = "str" THEN x.v ELSE <<>>

IsKept(item) == NonEmpty(item.f["headline"]) \/ NonEmpty(item.f["url"])
KeptRecords(items) == SelectSeq(items.a, IsKept)

\* the body the fetcher reads: the value of the solution's first present field
BodyRead ==
    IF data.solution.response # Absent THEN data.solution.response
    ELSE IF data.solution.body # Absent THEN data.solution.body
    ELSE data.solution.html

StatusIsOk == transport = "ok" /\ data.status = Str(<<"ok">>)

(***************************************************************************)
(* Claims checked under Spec: whole runs of main over the proxy envelopes  *)
(***************************************************************************)

\* C1: the output file is written only by the step that follows a completed
\* fetch and a completed conversion, with no exception raised; in a run that
\* ended in a fatal error save_rss was never called and the file holds what it
\* held before the run.
C1_WriteOnlyAfterPipeline ==
    /\ [][(file' # file \/ saved' # saved)
            => (pc = "built" /\ pc' = "done" /\ exc = "none" /\ news_items # NoVal
                /\ file' = build_rss(items_xml))]_vars
    /\ [](pc = "failed" => ~saved /\ file \in PriorFiles)

\* C1 witness: a run whose body was unparseable has failed, and the earlier
\* feed is still in the file.
C1_Witness ==
    /\ pc = "failed"
    /\ exc = "ValueError"
    /\ excmsg = <<"Response is not valid JSON">>
    /\ ~saved
    /\ file = <<"previous feed">>

\* the first of response, body, html that is present and non-null
FirstNonNull(sol) ==
    IF sol.response.k = "str" THEN sol.response
    ELSE IF sol.body.k = "str" THEN sol.body
    ELSE IF sol.html.k = "str" THEN sol.html
    ELSE None

EnvelopeShapeError ==
    exc = "ValueError" /\ excmsg = <<"Could not find response body in FlareSolverr response">>

\* C2 (as claimed): with status ok the fetcher takes the body from the first of
\* response, body, html that is present and non-null: it fails with the
\* envelope-shape error only when there is none, and otherwise the outcome is
\* that of a solution holding that body alone.
C2_FirstNonNullBody ==
    (pc # "start" /\ StatusIsOk /\ data.solkind = "dict")
        => LET body == FirstNonNull(data.solution)
               alone == fetch_latest_news_via_flaresolverr("ok",
                            [data EXCEPT !.solution = [NoSolution EXCEPT !.response = body]])
           IN  /\ EnvelopeShapeError <=> body = None
               /\ body # None => (exc = alone.exc /\ excmsg = alone.msg /\ news_items = alone.val)

\* C5: a status other than "ok", a missing status included, fails the run with
\* RuntimeError carrying the envelope's message when it has one (a null message
\* as the text None, no message as "Unknown error"), whatever the solution
\* holds; nothing is fetched and nothing is written.
C5_ProxyError ==
    (pc # "start" /\ transport = "ok" /\ data.status # Str(<<"ok">>))
        => /\ pc = "failed"
           /\ exc = "RuntimeError"
           /\ excmsg = <<"FlareSolverr failed: ">>
                        \o (IF data.message.k = "str" THEN data.message.v
                            ELSE IF data.message.k = "none" THEN <<"N", "o", "n", "e">>
                            ELSE <<"Unknown error">>)
           /\ news_items = NoVal
           /\ ~saved

\* C5 witness: status "error" with message "blocked" failed with that message
\* although the solution held a well-formed body.
C5_Witness ==
    /\ pc = "failed"
    /\ data.status = Str(<<"error">>)
    /\ data.message = Str(<<"blocked">>)
    /\ data.solution.response = Str(<<"[", "]">>)
    /\ excmsg = <<"FlareSolverr failed: ", "blocked">>

IsEmptyFeed(doc) ==
    /\ WellFormed(doc)
    /\ Len(doc) >= 5
    /\ SubSeq(doc, 1, 3) = <<"<?xml version=\"1.0\" encoding=\"UTF-8\"?>", "<rss version=\"2.0\">", "<channel>">>
    /\ SubSeq(doc, Len(doc) - 1, Len(doc)) = <<"</channel>", "</rss>">>
    /\ ParsedItems(doc) = <<>>
    /\ \A i \in DOMAIN doc : doc[i] # "<item>"

\* the text is empty, whitespace only, or an empty array with whitespace around
\* and inside it
IsEmptyBody(t) ==
    LET inked == SelectSeq(t, LAMBDA tok : tok # WS)
    IN  inked = <<>> \/ inked = <<"[", "]">>

\* C6: with status ok and a body that is empty, whitespace only or the text of
\* an empty array, no step raises: the fetcher returns an empty list,
\* convert_to_rss returns the empty fragment, and the file written is the
\* channel envelope with no <item> element.
C6_EmptyBodyEmptyFeed ==
    (StatusIsOk /\ data.solkind = "dict" /\ BodyRead.k = "str" /\ IsEmptyBody(BodyRead.v))
        => /\ pc # "failed"
           /\ exc = "none"
           /\ Fetched => news_items = JList(<<>>)
           /\ Converted => items_xml = <<>>
           /\ pc = "done" => (saved /\ IsEmptyFeed(file))

\* C6 witness: a whitespace-only body ended in a written, empty feed.
C6_Witness ==
    /\ pc = "done"
    /\ StatusIsOk
    /\ BodyRead = Str(<<WS, WS>>)
    /\ saved
    /\ IsEmptyFeed(file)

\* C9 (as claimed): a run fails only when the fetcher raised: whenever the
\* fetcher returned a value, of whatever JSON type, the run does not fail.
C9_FailsOnlyWhenFetcherRaises == pc = "failed" => news_items = NoVal

(***************************************************************************)
(* Claims checked under SpecParse: the fetcher on every body               *)
(***************************************************************************)
RawBody == data.solution.response.v

NonBlank(t) == \E i \in DOMAIN t : t[i] # WS

\* the text, leading whitespace aside, begins with '<'
BeginsWithTag(t) == \E i \in DOMAIN t : t[i] \in TagTokens /\ \A j \in 1..(i - 1) : t[j] = WS

\* the inner text of the first block opened by a tag in opens and closed by the
\* first later tag in closes
Blocks(t, opens, closes) ==
    {b \in (DOMAIN t) \X (DOMAIN t) : b[1] < b[2] /\ t[b[1]] \in opens /\ t[b[2]] \in closes}
FirstBlock(t, opens, closes) ==
    CHOOSE b \in Blocks(t, opens, closes) :
        \A c \in Blocks(t, opens, closes) : b[1] < c[1] \/ (b[1] = c[1] /\ b[2] <= c[2])
FirstInner(t, opens, closes) ==
    SubSeq(t, FirstBlock(t, opens, closes)[1] + 1, FirstBlock(t, opens, closes)[2] - 1)

\* C3 (as claimed): a body that is not JSON, begins with '<' and holds a
\* <pre>...</pre> block, the tag name in any letter case, whose inner text is
\* JSON, makes the fetcher return what that inner text parses to.
C3_PreBlockAnyCase ==
    (/\ pc # "start"
     /\ ~JsonLoads(RawBody).ok
     /\ BeginsWithTag(RawBody)
     /\ Blocks(RawBody, {"<pre>", "<PRE>"}, {"</pre>", "</PRE>"}) # {}
     /\ JsonLoads(FirstInner(RawBody, {"<pre>", "<PRE>"}, {"</pre>", "</PRE>"})).ok)
        => /\ exc = "none"
           /\ news_items = JsonLoads(FirstInner(RawBody, {"<pre>", "<PRE>"}, {"</pre>", "</PRE>"})).val

\* which error a body that is not JSON ends in, "" when it ends in none: a
\* <pre> block here is one written in lower case, as the code matches it
MalformedReason(t) ==
    IF ~BeginsWithTag(t) THEN "Response is not valid JSON"
    ELSE IF Blocks(t, {"<pre>"}, {"</pre>"}) = {} THEN "JSON wrapped in HTML but no <pre> tags found"
    ELSE IF ~JsonLoads(FirstInner(t, {"<pre>"}, {"</pre>"})).ok THEN "Extracted content is not valid JSON"
    ELSE ""

\* C4: a non-blank body that is not JSON makes the fetcher raise ValueError and
\* return nothing when it does not begin with '<', when it begins with '<' and
\* holds no <pre> block, and when the inner text of its first <pre> block is not
\* JSON; a body that is JSON is returned as parsed, the <pre> block never tried.
C4_MalformedPayload ==
    /\ (pc # "start" /\ NonBlank(RawBody) /\ ~JsonLoads(RawBody).ok /\ MalformedReason(RawBody) # "")
          => /\ pc = "failed"
             /\ exc = "ValueError"
             /\ excmsg = <<MalformedReason(RawBody)>>
             /\ news_items = NoVal
    /\ (pc # "start" /\ JsonLoads(RawBody).ok)
          => (exc = "none" /\ news_items = JsonLoads(RawBody).val)

\* C4 witness: an HTML body whose <pre> block holds no JSON was refused.
C4_Witness ==
    /\ pc = "failed"
    /\ RawBody = <<"<html>", "<pre>", "x", "</pre>">>
    /\ excmsg = <<"Extracted content is not valid JSON">>

(***************************************************************************)
(* Claims checked under SpecConvert and SpecCData: convert_to_rss          *)
(***************************************************************************)
Count(doc, tok) == Cardinality({i \in DOMAIN doc : doc[i] = tok})

\* C7: convert_to_rss emits one <item> for each record whose headline or url is
\* non-empty, none for the others, in the order of the records, and raises for
\* no record.
C7_OneItemPerKeptRecord ==
    /\ pc # "failed"
    /\ exc = "none"
    /\ Converted =>
          LET kept == KeptRecords(news_items)
              got == ParsedItems(items_xml)
          IN  /\ Count(items_xml, "<item>") = Len(kept)
              /\ Len(got) = Len(kept)
              /\ \A k \in DOMAIN got :
                    /\ got[k].title = TextOf(kept[k].f["headline"])
                    /\ got[k].link = TextOf(kept[k].f["url"])

\* C7 witness: of three records the middle one, with neither headline nor url,
\* was dropped, and records with only a url and only a headline were kept.
C7_Witness ==
    /\ pc = "done"
    /\ Len(news_items.a) = 3
    /\ ~IsKept(news_items.a[2])
    /\ Len(ParsedItems(file)) = 2
    /\ ParsedItems(file)[1].title = <<>> /\ ParsedItems(file)[1].link = <<"u">>
    /\ ParsedItems(file)[2].title = <<"A">> /\ ParsedItems(file)[2].link = <<>>

\* C8 (as claimed): whatever characters headline and description hold, the
\* output parses to one <item> per kept record whose title and description are
\* the record's, and nothing of them is read as markup.
C8_CDataKeepsStructure ==
    Converted =>
        LET kept == KeptRecords(news_items)
            got == ParsedItems(items_xml)
        IN  /\ WellFormed(items_xml)
            /\ Len(got) = Len(kept)
            /\ \A k \in DOMAIN got :
                  /\ got[k].title = TextOf(kept[k].f["headline"])
                  /\ got[k].description = TextOf(kept[k].f["description"])

\* the three records of the scenario: A without thumb, an empty record, B with thumb
Scenario ==
    JList(<<JDict(ItemA),
            JDict([NoFields EXCEPT !["headline"] = Str(<<>>), !["url"] = Str(<<>>)]),
            JDict([ItemA EXCEPT !["thumb"] = Str(<<"t">>)])>>)

\* C10: an emitted <item> holds an <enclosure> of type image/jpeg with the
\* record's thumb as url exactly when thumb is present and non-empty, no
\* enclosure tag otherwise, and a guid equal to its link; the scenario gives two
\* items of which only the second has an enclosure.
C10_EnclosureIffThumb ==
    Converted =>
        LET kept == KeptRecords(news_items)
            got == ParsedItems(items_xml)
        IN  /\ Len(got) = Len(kept)
            /\ \A k \in DOMAIN got :
                  /\ got[k].enclosure = IF NonEmpty(kept[k].f["thumb"])
                                        THEN <<kept[k].f["thumb"].v>> ELSE <<>>
                  /\ got[k].guid = got[k].link
                  /\ got[k].guid = TextOf(kept[k].f["url"])
            /\ Count(items_xml, EnclosureOpen)
                  = Cardinality({k \in DOMAIN kept : NonEmpty(kept[k].f["thumb"])})
            /\ news_items = Scenario
                  => (Len(got) = 2 /\ got[1].enclosure = <<>> /\ got[2].enclosure = <<(<<"t">>)>>)

\* C10 witness: the scenario's feed was written with two items, the second
\* alone carrying an enclosure.
C10_Witness ==
    /\ pc = "done"
    /\ news_items = Scenario
    /\ Len(ParsedItems(file)) = 2
    /\ ParsedItems(file)[1].enclosure = <<>>
    /\ ParsedItems(file)[2].enclosure = <<(<<"t">>)>>
    /\ Count(file, EnclosureOpen) = 1

====
